---- MODULE Spec2Model ----
(***************************************************************************)
(* State-machine model of the SrotoLipi AI front end (SrotoLipiAI          *)
(* component and the Gemini service it calls).  Each user gesture, each    *)
(* promise continuation and each browser callback is one atomic action,    *)
(* as it is one task of the browser's event loop.  alert() blocks the      *)
(* event loop, so while an alert is shown only its dismissal is enabled.   *)
(***************************************************************************)
EXTENDS Integers, Sequences, FiniteSets, TLC

\* ------------------------------------------------------------------ bounds
MaxRec == 2          \* record-button presses that start a capture
NumFiles == 2        \* distinct files the user can pick
MaxGen == 3          \* handleGenerate calls that pass the input check
MaxTts == 2          \* handleTTS calls that request speech
MaxClock == 3        \* last millisecond Date.now() reaches
MaxReloads == 1      \* page loads after the first
MaxFrames == 2       \* animation frames one run of the visualizer effect draws
MaxTurns == 4        \* user messages sent in the chat loop
MaxTokens == 2       \* tokens the local model streams in one turn

RecIds == 1..MaxRec
Files == 1..NumFiles
GenIds == 1..MaxGen
TtsIds == 1..MaxTts

Clock == 1..MaxClock

\* enum Tone (types.ts).
Tones == {"Professional", "Creative", "Casual", "Witty", "Emotional", "Horror",
          "Thriller", "Mystery", "Sci-Fi", "Dramatic", "Cinematic"}

\* The tones the user picks from the select in the state machine.
ToneChoices == {"Creative", "Horror"}

\* Two of the script lengths of the duration select, the default first.
Durations == {"Short (< 2 min)", "Medium (5 min)"}

\* Topic texts the user can type; "" is the empty textarea.
Texts == {"", "tea"}

\* The fields the response schema lists as required (geminiService).
SchemaFields == {"facebookTitle", "facebookPost", "instagramCaption", "linkedinPost",
                 "twitterPost", "youtubeTitle", "youtubeDescription", "videoScript",
                 "summary"}

\* What the vendor call can settle with: the call throws, the response has no
\* text, the text is not JSON, or the text is a JSON object holding some fields.
Replies ==
    {[kind |-> k, fields |-> {}] : k \in {"error", "notext", "badjson"}}
    \cup {[kind |-> "json", fields |-> F] :
              F \in {SchemaFields, SchemaFields \ {"summary"}, SchemaFields \ {"videoScript"}}}

\* ------------------------------------------------------------------- state
VARIABLES
    selectedFile,      \* useState<File | null>: 0 is null, else a file
    isRecording,       \* useState(false)
    audioStream,       \* useState<MediaStream | null>: 0 is null, else the capture that opened it
    recordedAudio,     \* useState<{blob, url} | null>
    mediaRecorderRef,  \* useRef<MediaRecorder | null>: 0 is null
    audioChunksRef,    \* useRef<Blob[]>: the chunks, each named by the recorder that delivered it
    recState,          \* per toggleRecording start: where its getUserMedia / MediaRecorder is
    trackLive,         \* per capture: its microphone stream's tracks are live
    mounted,           \* the SrotoLipiAI component is mounted
    viz,               \* the recording panel's AudioVisualizer: connected sources, pending frame, cleanup
    alertShown,        \* the blocking alert() on screen, "none" when there is none
    inputText,         \* useState('')
    isLoading,         \* useState(false)
    result,            \* useState<GeneratedContent | null>
    history,           \* useState<HistoryItem[]>
    genCall,           \* per handleGenerate call: where it is, and the state its closure captured
    isPlayingAudio,    \* useState(false)
    audioDownloadUrl,  \* useState<string | null>: 0 is null, else the result whose summary was synthesized
    audioSourceRef,    \* useRef<AudioBufferSourceNode | null>: 0 is null, else the call that made the source
    ttsCall,           \* per handleTTS speech request: where it is, and the state its closure captured
    srcState,          \* per handleTTS speech request: the AudioBufferSourceNode it created
    tone,              \* useState<Tone>(Tone.CREATIVE)
    now,               \* the value Date.now() returns
    localStorage,      \* the JSON text stored under 'srotolipi_history'
    reloads,           \* page loads after the first
    request,           \* generateContent's arguments and the parts it built for them
    chat               \* the local-model chat loop: state, transcript, last context

captureVars == <<selectedFile, isRecording, audioStream, recordedAudio,
                 mediaRecorderRef, audioChunksRef, recState, trackLive, mounted, viz>>

genVars == <<inputText, isLoading, result, history, genCall>>

ttsVars == <<isPlayingAudio, audioDownloadUrl, audioSourceRef, ttsCall, srcState>>

histVars == <<tone, now, localStorage, reloads, request, chat>>

vars == <<captureVars, alertShown, genVars, ttsVars, histVars>>

NoAudio == [some |-> FALSE, blob |-> <<>>]

\* result = null.  A GeneratedContent is the parsed reply of call gen (>= 1):
\* the fields the JSON object held.
NoResult == [gen |-> 0, fields |-> {}]

\* No AudioVisualizer effect has run: nothing connected, no frame requested,
\* no cleanup returned.
NoViz == [sources |-> {}, frame |-> FALSE, cleanup |-> FALSE, drawn |-> 0]

IdleCall == [pc |-> "unused", text |-> "", file |-> 0, audio |-> FALSE, tone |-> "Creative"]

\* A null mediaFile or audioInput argument of generateContent.
NoPart == [some |-> FALSE, data |-> "", mimeType |-> <<"", "">>]

\* MIME types as <<type, subtype>>; <<"", "">> is the empty File.type of a file
\* the browser cannot classify.
MediaMimeTypes == {<<"audio", "mpeg">>, <<"image", "png">>, <<"video", "mp4">>,
                   <<"application", "pdf">>, <<"", "">>}

\* recordedAudio.blob.type || 'audio/webm'
RecordedMimeTypes == {<<"audio", "wav">>, <<"audio", "webm">>}

\* The argument lists generateContent is applied to.
RequestArgs ==
    [textInput : Texts,
     mediaFile : {NoPart} \cup [some : {TRUE}, data : {"bWVkaWE="}, mimeType : MediaMimeTypes],
     audioInput : {NoPart} \cup [some : {TRUE}, data : {"YXVkaW8="}, mimeType : RecordedMimeTypes],
     tone : Tones,
     duration : Durations]

\* generateContent has not been called.
NoRequest ==
    [called |-> FALSE,
     args |-> [textInput |-> "", mediaFile |-> NoPart, audioInput |-> NoPart,
               tone |-> "Creative", duration |-> "Short (< 2 min)"],
     parts |-> <<>>]

\* mimeType.startsWith(category + '/')
MimeStartsWith(mimeType, category) == mimeType[1] = category

\* The hint texts pushed after an uploaded file, by MIME category.
ContextHint ==
    [audio |-> <<"Context: The attached media is an audio file. Listen to the speech/sound carefully and use it as the primary source material.">>,
     image |-> <<"Context: Analyze this image visually.">>,
     video |-> <<"Context: Analyze this video visually and audibly.">>]

\* The hint text pushed after the recorded audio.
AudioContextHint == <<"Audio Context: Please listen to this recorded audio and use it as the source material.">>

\* promptText: the tone line, the duration line and, for a non-empty
\* textInput, the topic line.
PromptText(textInput, toneArg, duration) ==
    <<"Generate content with a tone", toneArg, "Target Video Script Duration", duration>>
        \o (IF textInput # "" THEN <<"Topic/Context", textInput>> ELSE <<>>)

InlineDataPart(input) == [inlineData |-> [data |-> input.data, mimeType |-> input.mimeType]]

\* generateContent with the recorded-audio hint pushed outside `if (audioInput)`.
GenerateContentPartsHintAlways(textInput, mediaFile, audioInput, toneArg, duration) ==
    <<[text |-> PromptText(textInput, toneArg, duration)]>>
        \o (IF mediaFile.some
              THEN <<InlineDataPart(mediaFile)>>
                   \o (IF MimeStartsWith(mediaFile.mimeType, "audio")
                         THEN <<[text |-> ContextHint.audio]>>
                         ELSE IF MimeStartsWith(mediaFile.mimeType, "image")
                                THEN <<[text |-> ContextHint.image]>>
                                ELSE IF MimeStartsWith(mediaFile.mimeType, "video")
                                       THEN <<[text |-> ContextHint.video]>>
                                       ELSE <<>>)
              ELSE <<>>)
        \o (IF audioInput.some THEN <<InlineDataPart(audioInput)>> ELSE <<>>)
        \o <<[text |-> AudioContextHint]>>

\* The parts array generateContent builds (lines 44-80).
GenerateContentParts(textInput, mediaFile, audioInput, toneArg, duration) ==
    <<[text |-> PromptText(textInput, toneArg, duration)]>>
        \o (IF mediaFile.some
              THEN <<InlineDataPart(mediaFile)>>
                   \o (IF MimeStartsWith(mediaFile.mimeType, "audio")
                         THEN <<[text |-> ContextHint.audio]>>
                         ELSE IF MimeStartsWith(mediaFile.mimeType, "image")
                                THEN <<[text |-> ContextHint.image]>>
                                ELSE IF MimeStartsWith(mediaFile.mimeType, "video")
                                       THEN <<[text |-> ContextHint.video]>>
                                       ELSE <<>>)
              ELSE <<>>)
        \o (IF audioInput.some
              THEN <<InlineDataPart(audioInput), [text |-> AudioContextHint]>>
              ELSE <<>>)

\* JSON.stringify of one HistoryItem: its members in insertion order (lines
\* 179-185), each a name and a value.
JsonStringifyItem(item) ==
    <<<<"id", item.id>>, <<"timestamp", item.timestamp>>, <<"preview", item.preview>>,
      <<"tone", item.tone>>, <<"data", item.data>>>>

\* JSON.stringify(history): the array of the items' texts, in order.
JsonStringify(h) == [i \in 1..Len(h) |-> JsonStringifyItem(h[i])]

\* The member of a parsed object text called name.
JsonMember(obj, name) == obj[CHOOSE k \in 1..Len(obj) : obj[k][1] = name][2]

\* JSON.parse of a stored history: every object text back to a HistoryItem.
JsonParse(text) ==
    [i \in 1..Len(text) |->
        [id |-> JsonMember(text[i], "id"), timestamp |-> JsonMember(text[i], "timestamp"),
         preview |-> JsonMember(text[i], "preview"), tone |-> JsonMember(text[i], "tone"),
         data |-> JsonMember(text[i], "data")]]

\* The chat loop before the model is loaded: an empty transcript, no context
\* sent, no abort armed, no assistant message of a turn in progress.
NoChat == [state |-> "Unloaded", messages |-> <<>>, context |-> <<>>, aborted |-> FALSE,
           streaming |-> FALSE]

IdleTts == [pc |-> "unused", gen |-> 0, hadUrl |-> FALSE]

InitState ==
    /\ selectedFile = 0
    /\ isRecording = FALSE
    /\ audioStream = 0
    /\ recordedAudio = NoAudio
    /\ mediaRecorderRef = 0
    /\ audioChunksRef = <<>>
    /\ recState = [r \in RecIds |-> "unused"]
    /\ trackLive = [r \in RecIds |-> FALSE]
    /\ mounted = TRUE
    /\ viz = NoViz
    /\ alertShown = "none"
    /\ inputText = ""
    /\ isLoading = FALSE
    /\ result = NoResult
    /\ history = <<>>
    /\ genCall = [g \in GenIds |-> IdleCall]
    /\ isPlayingAudio = FALSE
    /\ audioDownloadUrl = 0
    /\ audioSourceRef = 0
    /\ ttsCall = [t \in TtsIds |-> IdleTts]
    /\ srcState = [t \in TtsIds |-> "none"]
    /\ tone = "Creative"
    /\ now = 1
    /\ localStorage = JsonStringify(<<>>)
    /\ reloads = 0
    /\ chat = NoChat

Init ==
    /\ InitState
    /\ request = NoRequest

\* ------------------------------------------------------------ input collector

\* HandleFileChange without the setRecordedAudio(null) of line 101.
HandleFileChangeKeepsAudio(f) ==
    /\ mounted
    /\ alertShown = "none"
    /\ selectedFile' = IF f # 0 THEN f ELSE selectedFile
    /\ UNCHANGED <<isRecording, audioStream, recordedAudio, mediaRecorderRef,
                   audioChunksRef, recState, trackLive, mounted, viz, alertShown,
                   genVars, ttsVars>>
    /\ UNCHANGED histVars

\* <input type="file" onChange>: f = 0 is a change event with no file chosen.
HandleFileChange(f) ==
    /\ mounted
    /\ alertShown = "none"
    /\ IF f # 0
         THEN /\ selectedFile' = f
              /\ recordedAudio' = NoAudio
         ELSE UNCHANGED <<selectedFile, recordedAudio>>
    /\ UNCHANGED <<isRecording, audioStream, mediaRecorderRef, audioChunksRef,
                   recState, trackLive, alertShown>>
    /\ UNCHANGED <<mounted, viz, genVars, ttsVars>>
    /\ UNCHANGED histVars

\* The X button, rendered only while a file is selected.
RemoveFile ==
    /\ mounted
    /\ alertShown = "none"
    /\ selectedFile # 0
    /\ selectedFile' = 0
    /\ UNCHANGED <<isRecording, audioStream, recordedAudio, mediaRecorderRef,
                   audioChunksRef, recState, trackLive, alertShown>>
    /\ UNCHANGED <<mounted, viz, genVars, ttsVars>>
    /\ UNCHANGED histVars

\* ------------------------------------------------------------- audio capture

NextRec == IF \E r \in RecIds : recState[r] = "unused"
             THEN CHOOSE r \in RecIds : recState[r] = "unused"
                                        /\ \A q \in RecIds : q < r => recState[q] # "unused"
             ELSE 0

\* AudioVisualizer's useEffect as React runs it after a commit.  The panel
\* renders the visualizer while isRecording, with stream = audioStream.  On
\* unmount, or before the effect runs again for a new stream, the cleanup the
\* last run returned (if it returned one) cancels the frame and disconnects the
\* source.  The effect connects a source for the stream and, when the canvas
\* gives a 2D context (hasCtx), requests the first frame and returns a cleanup;
\* without a context it returns nothing.
VizCleanedUp == IF viz.cleanup THEN NoViz ELSE [viz EXCEPT !.cleanup = FALSE]

VizAfter(shows, stream, hasCtx) ==
    LET shown == mounted /\ isRecording
    IN  IF ~shows
          THEN IF shown THEN VizCleanedUp ELSE viz
          ELSE IF shown /\ stream = audioStream
                 THEN viz
                 ELSE LET base == IF shown THEN VizCleanedUp ELSE viz
                      IN  IF hasCtx
                            THEN [sources |-> base.sources \cup {stream},
                                  frame |-> TRUE, cleanup |-> TRUE, drawn |-> 1]
                            ELSE [sources |-> base.sources \cup {stream},
                                  frame |-> base.frame, cleanup |-> FALSE,
                                  drawn |-> base.drawn]

\* The browser runs the requested animation frame: draw requests the next
\* frame and paints the bars (isActive is true in every closure the panel's
\* visualizer gets).
VizDrawFrame ==
    /\ alertShown = "none"
    /\ viz.frame
    /\ viz.drawn < MaxFrames
    /\ viz' = [viz EXCEPT !.drawn = @ + 1]
    /\ UNCHANGED <<selectedFile, isRecording, audioStream, recordedAudio, mediaRecorderRef,
                   audioChunksRef, recState, trackLive, mounted, alertShown>>
    /\ UNCHANGED <<genVars, ttsVars, histVars>>

\* toggleRecording, isRecording branch: stop the current recorder, clear the
\* flag, stop the tracks of the stream held in state.
ToggleRecordingStop ==
    /\ mounted
    /\ alertShown = "none"
    /\ isRecording
    /\ IF mediaRecorderRef # 0 /\ recState[mediaRecorderRef] = "recording"
         THEN recState' = [recState EXCEPT ![mediaRecorderRef] = "stopping"]
         ELSE UNCHANGED recState
    /\ isRecording' = FALSE
    /\ IF audioStream # 0
         THEN trackLive' = [trackLive EXCEPT ![audioStream] = FALSE]
         ELSE UNCHANGED trackLive
    /\ viz' = VizAfter(FALSE, audioStream, TRUE)
    /\ UNCHANGED <<selectedFile, audioStream, recordedAudio, mediaRecorderRef,
                   audioChunksRef, mounted, alertShown>>
    /\ UNCHANGED <<genVars, ttsVars>>
    /\ UNCHANGED histVars

\* toggleRecording, else branch up to the await of getUserMedia.
ToggleRecordingStart ==
    /\ mounted
    /\ alertShown = "none"
    /\ ~isRecording
    /\ NextRec # 0
    /\ recState' = [recState EXCEPT ![NextRec] = "pending"]
    /\ UNCHANGED <<selectedFile, isRecording, audioStream, recordedAudio,
                   mediaRecorderRef, audioChunksRef, trackLive, alertShown>>
    /\ UNCHANGED <<mounted, viz, genVars, ttsVars>>
    /\ UNCHANGED histVars

\* Continuation after getUserMedia resolves: lines 114-134.
GetUserMediaResolve(r) ==
    /\ alertShown = "none"
    /\ recState[r] = "pending"
    /\ audioStream' = r
    /\ trackLive' = [trackLive EXCEPT ![r] = TRUE]
    /\ mediaRecorderRef' = r
    /\ audioChunksRef' = <<>>
    /\ recState' = [recState EXCEPT ![r] = "recording"]
    /\ isRecording' = TRUE
    /\ \E hasCtx \in BOOLEAN : viz' = VizAfter(mounted, r, hasCtx)
    /\ UNCHANGED <<selectedFile, recordedAudio, mounted, alertShown>>
    /\ UNCHANGED <<genVars, ttsVars>>
    /\ UNCHANGED histVars

\* getUserMedia rejects: the catch block.
GetUserMediaReject(r) ==
    /\ alertShown = "none"
    /\ recState[r] = "pending"
    /\ recState' = [recState EXCEPT ![r] = "denied"]
    /\ alertShown' = "micDenied"
    /\ UNCHANGED <<selectedFile, isRecording, audioStream, recordedAudio,
                   mediaRecorderRef, audioChunksRef, trackLive>>
    /\ UNCHANGED <<mounted, viz, genVars, ttsVars>>
    /\ UNCHANGED histVars

\* getUserMedia resolves but the recorder cannot be set up: new MediaRecorder
\* throws (at = "ctor", line 116) or mediaRecorder.start() throws (at = "start",
\* line 133).  setAudioStream has run; the catch block alerts.
RecorderSetupThrows(r, at) ==
    /\ alertShown = "none"
    /\ recState[r] = "pending"
    /\ audioStream' = r
    /\ trackLive' = [trackLive EXCEPT ![r] = TRUE]
    /\ IF at = "start"
         THEN /\ mediaRecorderRef' = r
              /\ audioChunksRef' = <<>>
         ELSE UNCHANGED <<mediaRecorderRef, audioChunksRef>>
    /\ recState' = [recState EXCEPT ![r] = "failed"]
    /\ alertShown' = "micDenied"
    /\ \E hasCtx \in BOOLEAN : viz' = VizAfter(mounted /\ isRecording, r, hasCtx)
    /\ UNCHANGED <<selectedFile, isRecording, recordedAudio, mounted>>
    /\ UNCHANGED <<genVars, ttsVars>>
    /\ UNCHANGED histVars

\* The task MediaRecorder.stop() queues: dataavailable (size = number of
\* non-empty blobs it carries, 0 or 1), then stop.
RecorderStopTask(r, size) ==
    /\ alertShown = "none"
    /\ recState[r] = "stopping"
    /\ LET chunks == IF size > 0 THEN Append(audioChunksRef, r) ELSE audioChunksRef
       IN  /\ audioChunksRef' = chunks
           /\ recordedAudio' = [some |-> TRUE, blob |-> chunks]
    /\ selectedFile' = 0
    /\ recState' = [recState EXCEPT ![r] = "inactive"]
    /\ UNCHANGED <<isRecording, audioStream, mediaRecorderRef, trackLive, alertShown>>
    /\ UNCHANGED <<mounted, viz, genVars, ttsVars>>
    /\ UNCHANGED histVars

\* The user closes the alert.
DismissAlert ==
    /\ alertShown # "none"
    /\ alertShown' = "none"
    /\ UNCHANGED <<captureVars, genVars, ttsVars>>
    /\ UNCHANGED histVars

\* React unmounts the view: the effect cleanups run (the visualizer's, and the
\* URL revocation of lines 91-95); SrotoLipiAI registers no other cleanup.
Unmount ==
    /\ alertShown = "none"
    /\ mounted
    /\ mounted' = FALSE
    /\ viz' = VizAfter(FALSE, audioStream, TRUE)
    /\ UNCHANGED <<selectedFile, isRecording, audioStream, recordedAudio,
                   mediaRecorderRef, audioChunksRef, recState, trackLive, alertShown>>
    /\ UNCHANGED <<genVars, ttsVars>>
    /\ UNCHANGED histVars

NextCapture ==
    \/ \E f \in Files \cup {0} : HandleFileChange(f)
    \/ RemoveFile
    \/ ToggleRecordingStop
    \/ ToggleRecordingStart
    \/ \E r \in RecIds : GetUserMediaResolve(r)
    \/ \E r \in RecIds : GetUserMediaReject(r)
    \/ \E r \in RecIds, at \in {"ctor", "start"} : RecorderSetupThrows(r, at)
    \/ Unmount
    \/ VizDrawFrame
    \/ \E r \in RecIds, size \in 0..1 : RecorderStopTask(r, size)
    \/ DismissAlert

SpecCapture == Init /\ [][NextCapture]_vars

\* ---------------------------------------------------------------- generation

\* <textarea onChange>.
SetInputText(t) ==
    /\ mounted
    /\ alertShown = "none"
    /\ t # inputText
    /\ inputText' = t
    /\ UNCHANGED <<captureVars, alertShown, isLoading, result, history, genCall, ttsVars>>
    /\ UNCHANGED histVars

NextGen == IF \E g \in GenIds : genCall[g].pc = "unused"
             THEN CHOOSE g \in GenIds : genCall[g].pc = "unused"
                                        /\ \A q \in GenIds : q < g => genCall[q].pc # "unused"
             ELSE 0

\* handleGenerate without the input check of lines 143-146.
HandleGenerateUnchecked ==
    /\ mounted
    /\ alertShown = "none"
    /\ NextGen # 0
    /\ isLoading' = TRUE
    /\ audioDownloadUrl' = 0
    /\ genCall' = [genCall EXCEPT ![NextGen] =
           [pc |-> IF selectedFile # 0 \/ recordedAudio.some THEN "encoding" ELSE "request",
            text |-> inputText, file |-> selectedFile, audio |-> recordedAudio.some,
            tone |-> tone]]
    /\ UNCHANGED <<captureVars, alertShown, inputText, result, history,
                   isPlayingAudio, audioSourceRef, ttsCall, srcState>>
    /\ UNCHANGED histVars

\* handleGenerate up to its first await.  With nothing to send it alerts and
\* returns.  Otherwise it sets isLoading and, with an attachment, awaits the
\* FileReader; with none it calls generateContent at once.
HandleGenerate ==
    /\ mounted
    /\ alertShown = "none"
    /\ IF inputText = "" /\ selectedFile = 0 /\ ~recordedAudio.some
         THEN /\ alertShown' = "provideInput"
              /\ UNCHANGED <<isLoading, genCall, audioDownloadUrl>>
         ELSE /\ NextGen # 0
              /\ isLoading' = TRUE
              /\ audioDownloadUrl' = 0
              /\ genCall' = [genCall EXCEPT ![NextGen] =
                     [pc |-> IF selectedFile # 0 \/ recordedAudio.some
                               THEN "encoding" ELSE "request",
                      text |-> inputText, file |-> selectedFile,
                      audio |-> recordedAudio.some, tone |-> tone]]
              /\ UNCHANGED alertShown
    /\ UNCHANGED <<captureVars, inputText, result, history,
                   isPlayingAudio, audioSourceRef, ttsCall, srcState>>
    /\ UNCHANGED histVars

\* The Generate button: disabled={isLoading}.
GenerateButtonEnabled == ~isLoading

\* The Regenerate button rendered whenever there is a result.
RegenerateOfferedWhileLoading == result # NoResult

\* The Regenerate button: rendered when result && !isLoading.
RegenerateButtonOffered == result # NoResult /\ ~isLoading

PressGenerate == GenerateButtonEnabled /\ HandleGenerate

PressRegenerate == RegenerateButtonOffered /\ HandleGenerate

\* The attachments are read as base64; generateContent is then called.
EncodingDone(g) ==
    /\ alertShown = "none"
    /\ genCall[g].pc = "encoding"
    /\ genCall' = [genCall EXCEPT ![g].pc = "request"]
    /\ UNCHANGED <<captureVars, alertShown, inputText, isLoading, result, history, ttsVars>>
    /\ UNCHANGED histVars

\* The catch block of handleGenerate with a setResult(null) added to it.
GenerateCatchClearsResult(g) ==
    /\ genCall' = [genCall EXCEPT ![g] = [IdleCall EXCEPT !.pc = "failed"]]
    /\ alertShown' = "generationFailed"
    /\ isLoading' = FALSE
    /\ result' = NoResult
    /\ UNCHANGED <<captureVars, inputText, history, ttsVars>>
    /\ UNCHANGED histVars

\* The catch block of handleGenerate without the finally block.
GenerateCatchKeepsLoading(g) ==
    /\ genCall' = [genCall EXCEPT ![g] = [IdleCall EXCEPT !.pc = "failed"]]
    /\ alertShown' = "generationFailed"
    /\ UNCHANGED isLoading
    /\ UNCHANGED <<captureVars, inputText, result, history, ttsVars>>
    /\ UNCHANGED histVars

\* The catch and finally blocks of handleGenerate.
GenerateCatch(g) ==
    /\ genCall' = [genCall EXCEPT ![g] = [IdleCall EXCEPT !.pc = "failed"]]
    /\ alertShown' = "generationFailed"
    /\ isLoading' = FALSE
    /\ UNCHANGED <<captureVars, inputText, result, history, ttsVars>>
    /\ UNCHANGED histVars

\* The FileReader fails: the await throws inside the try.
EncodingFail(g) ==
    /\ alertShown = "none"
    /\ genCall[g].pc = "encoding"
    /\ GenerateCatch(g)

\* generateContent without the `if (!jsonText) throw`, an empty text taken as
\* an empty object.
ContentRejectsNoTextPasses(reply) == reply.kind \in {"error", "badjson"}

\* generateContent: what it does with the vendor's reply.  It throws on an
\* error, on an empty text and on text JSON.parse rejects; any JSON object is
\* returned as it is.
ContentRejects(reply) == reply.kind \in {"error", "notext", "badjson"}

\* The entry of call g with the tone and text read when the call settles
\* instead of from the closure.
NewHistoryItemLatestInput(g, data) ==
    [id |-> ToString(now),
     timestamp |-> now,
     preview |-> IF inputText # "" THEN inputText
                 ELSE IF genCall[g].file # 0 THEN "File" ELSE "Audio Recording",
     tone |-> tone,
     data |-> data]

\* The entry handleGenerate builds for the content of call g: both Date.now()
\* calls read the clock of the task that runs the continuation.
NewHistoryItem(g, data) ==
    [id |-> ToString(now),
     timestamp |-> now,
     preview |-> IF genCall[g].text # "" THEN genCall[g].text
                 ELSE IF genCall[g].file # 0 THEN "File" ELSE "Audio Recording",
     tone |-> genCall[g].tone,
     data |-> data]

\* setHistory(prev => [...prev, newHistoryItem]): the new item put last.
AppendHistory(item, prev) == prev \o <<item>>

\* setHistory(prev => [newHistoryItem, ...prev]).
PrependHistory(item, prev) == <<item>> \o prev

\* The vendor call of g settles with reply.
GenerateSettle(g, reply) ==
    /\ alertShown = "none"
    /\ genCall[g].pc = "request"
    /\ IF ContentRejects(reply)
         THEN GenerateCatch(g)
         ELSE LET data == [gen |-> g, fields |-> reply.fields]
              IN  /\ result' = data
                  /\ history' = PrependHistory(NewHistoryItem(g, data), history)
                  /\ localStorage' = JsonStringify(history')
                  /\ isLoading' = FALSE
                  /\ genCall' = [genCall EXCEPT ![g] = [IdleCall EXCEPT !.pc = "done"]]
                  /\ UNCHANGED <<captureVars, alertShown, inputText, ttsVars,
                                 tone, now, reloads, request, chat>>

\* A click on a history entry.
RestoreHistoryItem(i) ==
    /\ mounted
    /\ alertShown = "none"
    /\ i \in 1..Len(history)
    /\ result' = history[i].data
    /\ tone' = history[i].tone
    /\ audioDownloadUrl' = 0
    /\ UNCHANGED <<captureVars, alertShown, inputText, isLoading, history, genCall,
                   isPlayingAudio, audioSourceRef, ttsCall, srcState,
                   now, localStorage, reloads, request, chat>>

NextGenerate ==
    \/ \E f \in Files \cup {0} : HandleFileChange(f)
    \/ RemoveFile
    \/ DismissAlert
    \/ \E t \in Texts : SetInputText(t)
    \/ PressGenerate
    \/ PressRegenerate
    \/ \E g \in GenIds : EncodingDone(g)
    \/ \E g \in GenIds : EncodingFail(g)
    \/ \E g \in GenIds, reply \in Replies : GenerateSettle(g, reply)
    \/ \E i \in 1..MaxGen : RestoreHistoryItem(i)

SpecGenerate == Init /\ [][NextGenerate]_vars

\* ------------------------------------------------------------ text to speech

NextTts == IF \E t \in TtsIds : ttsCall[t].pc = "unused"
             THEN CHOOSE t \in TtsIds : ttsCall[t].pc = "unused"
                                        /\ \A q \in TtsIds : q < t => ttsCall[q].pc # "unused"
             ELSE 0

\* The play button is rendered when result.summary is set; handleTTS returns
\* at once without it.
HasSummary == result # NoResult /\ "summary" \in result.fields

\* handleTTS with isPlayingAudio set: stop the source the ref holds, if any,
\* and clear the flag.
HandleTTSStop ==
    /\ mounted
    /\ alertShown = "none"
    /\ HasSummary
    /\ isPlayingAudio
    /\ IF audioSourceRef # 0
         THEN /\ srcState' = [srcState EXCEPT ![audioSourceRef] =
                                  IF @ = "playing" THEN "stopped" ELSE @]
              /\ audioSourceRef' = 0
         ELSE UNCHANGED <<srcState, audioSourceRef>>
    /\ isPlayingAudio' = FALSE
    /\ UNCHANGED <<captureVars, alertShown, genVars, audioDownloadUrl, ttsCall>>
    /\ UNCHANGED histVars

\* handleTTS with isPlayingAudio clear, up to the await of generateSpeech.
HandleTTSStart ==
    /\ mounted
    /\ alertShown = "none"
    /\ HasSummary
    /\ ~isPlayingAudio
    /\ NextTts # 0
    /\ isPlayingAudio' = TRUE
    /\ ttsCall' = [ttsCall EXCEPT ![NextTts] =
                      [pc |-> "speech", gen |-> result.gen, hadUrl |-> audioDownloadUrl # 0]]
    /\ UNCHANGED <<captureVars, alertShown, genVars, audioDownloadUrl, audioSourceRef, srcState>>
    /\ UNCHANGED histVars

\* The catch block of handleTTS.
TTSCatch(t) ==
    /\ ttsCall' = [ttsCall EXCEPT ![t] = [IdleTts EXCEPT !.pc = "failed"]]
    /\ isPlayingAudio' = FALSE
    /\ alertShown' = "ttsFailed"
    /\ UNCHANGED <<captureVars, genVars, audioDownloadUrl, audioSourceRef, srcState>>
    /\ UNCHANGED histVars

\* What the speech call can settle with: the call throws, or a response whose
\* first candidate holds these parts (none when there is no candidate).
SpeechResponses ==
    {[kind |-> "error", parts |-> <<>>],
     [kind |-> "ok", parts |-> <<>>],
     [kind |-> "ok", parts |-> <<[text |-> "tea"]>>],
     [kind |-> "ok", parts |-> <<[inlineData |-> [data |-> "UklGRg=="]]>>],
     [kind |-> "ok", parts |-> <<[text |-> "tea"], [inlineData |-> [data |-> "UklGRg=="]]>>]}

\* response.candidates?.[0]?.content?.parts?.[0]?.inlineData?.data, "" for
\* undefined.
FirstPartData(response) ==
    IF Len(response.parts) >= 1 /\ "inlineData" \in DOMAIN response.parts[1]
      THEN response.parts[1].inlineData.data
      ELSE ""

\* generateSpeech: the base64 string it returns, or a throw.
GenerateSpeech(response) ==
    IF response.kind = "error" \/ FirstPartData(response) = ""
      THEN [throws |-> TRUE, audioData |-> ""]
      ELSE [throws |-> FALSE, audioData |-> FirstPartData(response)]

\* generateSpeech settles: with audio, the download URL is made unless the
\* closure saw one, and decodeAudioData is awaited; without, it throws.
SpeechSettle(t, response) ==
    /\ alertShown = "none"
    /\ ttsCall[t].pc = "speech"
    /\ IF ~GenerateSpeech(response).throws
         THEN /\ ttsCall' = [ttsCall EXCEPT ![t].pc = "decode"]
              /\ audioDownloadUrl' = IF ttsCall[t].hadUrl THEN audioDownloadUrl
                                                            ELSE ttsCall[t].gen
              /\ UNCHANGED <<captureVars, alertShown, genVars, isPlayingAudio,
                             audioSourceRef, srcState, histVars>>
         ELSE TTSCatch(t)

\* decodeAudioData settles: the source is created, started and put in the ref.
DecodeSettle(t, decoded) ==
    /\ alertShown = "none"
    /\ ttsCall[t].pc = "decode"
    /\ IF decoded
         THEN /\ ttsCall' = [ttsCall EXCEPT ![t] = [IdleTts EXCEPT !.pc = "done"]]
              /\ srcState' = [srcState EXCEPT ![t] = "playing"]
              /\ audioSourceRef' = t
              /\ UNCHANGED <<captureVars, alertShown, genVars, isPlayingAudio,
                             audioDownloadUrl, histVars>>
         ELSE TTSCatch(t)

\* source.onended: the ended event of a source that played to its end or was
\* stopped.
SourceOnEnded(t) ==
    /\ alertShown = "none"
    /\ srcState[t] \in {"playing", "stopped"}
    /\ srcState' = [srcState EXCEPT ![t] = "ended"]
    /\ isPlayingAudio' = FALSE
    /\ UNCHANGED <<captureVars, alertShown, genVars, audioDownloadUrl, audioSourceRef, ttsCall>>
    /\ UNCHANGED histVars

NextSpeech ==
    \/ \E t \in Texts : SetInputText(t)
    \/ PressGenerate
    \/ PressRegenerate
    \/ \E g \in GenIds, reply \in Replies : GenerateSettle(g, reply)
    \/ \E i \in 1..MaxGen : RestoreHistoryItem(i)
    \/ HandleTTSStop
    \/ HandleTTSStart
    \/ \E t \in TtsIds, response \in SpeechResponses : SpeechSettle(t, response)
    \/ \E t \in TtsIds, decoded \in BOOLEAN : DecodeSettle(t, decoded)
    \/ \E t \in TtsIds : SourceOnEnded(t)
    \/ DismissAlert

SpecSpeech == Init /\ [][NextSpeech]_vars

\* ------------------------------------------------- attachments and requests

\* The replies the vendor call settles with where the reply's shape is not at
\* issue: an error or a complete object.
HistoryReplies == {reply \in Replies : reply.kind = "error" \/ reply.fields = SchemaFields}

\* File.type of the files the user can pick: the first an image, the others
\* of a type the accept list does not name.
FileType(f) == IF f = 1 THEN <<"image", "png">> ELSE <<"application", "pdf">>

\* mediaData of handleGenerate for the closure's selectedFile.
MediaDataOf(f) ==
    IF f = 0 THEN NoPart ELSE [some |-> TRUE, data |-> "bWVkaWE=", mimeType |-> FileType(f)]

\* audioData of handleGenerate for the closure's recordedAudio: the blob is
\* made with type 'audio/wav'.
AudioDataOf(hasAudio) ==
    IF hasAudio THEN [some |-> TRUE, data |-> "YXVkaW8=", mimeType |-> <<"audio", "wav">>]
    ELSE NoPart

\* The parts of the request call g makes: generateContent applied to the
\* closure's text, attachments and tone (duration at its default).
PartsOfCall(g) ==
    GenerateContentParts(genCall[g].text, MediaDataOf(genCall[g].file),
                         AudioDataOf(genCall[g].audio), genCall[g].tone, "Short (< 2 min)")

NextAttach ==
    \/ \E f \in Files : HandleFileChange(f)
    \/ RemoveFile
    \/ ToggleRecordingStop
    \/ ToggleRecordingStart
    \/ \E r \in RecIds : GetUserMediaResolve(r)
    \/ \E r \in RecIds, size \in 0..1 : RecorderStopTask(r, size)
    \/ DismissAlert
    \/ PressGenerate
    \/ \E g \in GenIds : EncodingDone(g)
    \/ \E g \in GenIds, reply \in HistoryReplies : GenerateSettle(g, reply)

SpecAttach == Init /\ [][NextAttach]_vars

\* ------------------------------------------------------------------- history

\* The tone select's onChange.
SetTone(t) ==
    /\ mounted
    /\ alertShown = "none"
    /\ tone' = t
    /\ UNCHANGED <<captureVars, alertShown, genVars, ttsVars, now, localStorage, reloads, request, chat>>

\* A millisecond passes on the wall clock Date.now() reads.
Tick ==
    /\ alertShown = "none"
    /\ now < MaxClock
    /\ now' = now + 1
    /\ UNCHANGED <<captureVars, alertShown, genVars, ttsVars, tone, localStorage, reloads, request, chat>>

\* The system sets the wall clock back to t (a time synchronisation step).
ClockSetBack(t) ==
    /\ alertShown = "none"
    /\ t < now
    /\ now' = t
    /\ UNCHANGED <<captureVars, alertShown, genVars, ttsVars, tone, localStorage, reloads, request, chat>>

\* The ids Date.now().toString() can give a history entry.
HistoryIds == {ToString(t) : t \in Clock}

\* prev.filter(item => item.id !== id)
FilterOutId(prev, id) == SelectSeq(prev, LAMBDA item : item.id # id)

\* deleteHistoryItem with no persistence effect run after it.
DeleteHistoryItemUnsaved(id) ==
    /\ mounted
    /\ alertShown = "none"
    /\ \E i \in 1..Len(history) : history[i].id = id
    /\ history' = FilterOutId(history, id)
    /\ UNCHANGED localStorage
    /\ UNCHANGED <<captureVars, alertShown, inputText, isLoading, result, genCall, ttsVars,
                   tone, now, reloads, request, chat>>

\* The delete button of the history entry whose id is id; the persistence
\* effect then stores the new list.
DeleteHistoryItem(id) ==
    /\ mounted
    /\ alertShown = "none"
    /\ \E i \in 1..Len(history) : history[i].id = id
    /\ history' = FilterOutId(history, id)
    /\ localStorage' = JsonStringify(history')
    /\ UNCHANGED <<captureVars, alertShown, inputText, isLoading, result, genCall, ttsVars,
                   tone, now, reloads, request, chat>>

\* clearHistory with setHistory([]) outside the if.
ClearHistoryUnconfirmed(accepted) ==
    /\ mounted
    /\ alertShown = "none"
    /\ Len(history) > 0
    /\ history' = <<>>
    /\ localStorage' = JsonStringify(history')
    /\ UNCHANGED <<captureVars, alertShown, inputText, isLoading, result, genCall, ttsVars,
                   tone, now, reloads, request, chat>>

\* The Clear All button, rendered while history is not empty; confirm()
\* returns accepted before the handler goes on.
ClearHistory(accepted) ==
    /\ mounted
    /\ alertShown = "none"
    /\ Len(history) > 0
    /\ IF accepted
         THEN /\ history' = <<>>
              /\ localStorage' = JsonStringify(history')
         ELSE UNCHANGED <<history, localStorage>>
    /\ UNCHANGED <<captureVars, alertShown, inputText, isLoading, result, genCall, ttsVars,
                   tone, now, reloads, request, chat>>

\* What a page load leaves of a call slot: a slot in use belongs to the old
\* document and no continuation of it runs again.
Unloaded(pc) == IF pc = "unused" THEN "unused" ELSE "unloaded"

\* The page is loaded again: the old document and what it held are gone, the
\* component is constructed anew, history is read from localStorage and the
\* persistence effect writes it back.
Reload ==
    /\ alertShown = "none"
    /\ reloads < MaxReloads
    /\ reloads' = reloads + 1
    /\ selectedFile' = 0
    /\ isRecording' = FALSE
    /\ audioStream' = 0
    /\ recordedAudio' = NoAudio
    /\ mediaRecorderRef' = 0
    /\ audioChunksRef' = <<>>
    /\ recState' = [r \in RecIds |-> Unloaded(recState[r])]
    /\ trackLive' = [r \in RecIds |-> FALSE]
    /\ mounted' = TRUE
    /\ viz' = NoViz
    /\ inputText' = ""
    /\ isLoading' = FALSE
    /\ result' = NoResult
    /\ history' = JsonParse(localStorage)
    /\ localStorage' = JsonStringify(history')
    /\ genCall' = [g \in GenIds |-> [IdleCall EXCEPT !.pc = Unloaded(genCall[g].pc)]]
    /\ isPlayingAudio' = FALSE
    /\ audioDownloadUrl' = 0
    /\ audioSourceRef' = 0
    /\ ttsCall' = [t \in TtsIds |-> [IdleTts EXCEPT !.pc = Unloaded(ttsCall[t].pc)]]
    /\ srcState' = [t \in TtsIds |-> IF srcState[t] = "none" THEN "none" ELSE "unloaded"]
    /\ tone' = "Creative"
    /\ chat' = NoChat
    /\ UNCHANGED <<alertShown, now, request>>

NextHistory ==
    \/ DismissAlert
    \/ \E t \in Texts : SetInputText(t)
    \/ \E t \in ToneChoices : SetTone(t)
    \/ PressGenerate
    \/ \E g \in GenIds, reply \in HistoryReplies : GenerateSettle(g, reply)
    \/ \E i \in 1..MaxGen : RestoreHistoryItem(i)
    \/ \E id \in HistoryIds : DeleteHistoryItem(id)
    \/ \E accepted \in BOOLEAN : ClearHistory(accepted)
    \/ Tick
    \/ \E t \in Clock : ClockSetBack(t)
    \/ Reload

SpecHistory == Init /\ [][NextHistory]_vars

\* Generation with the tone select in use.
NextSubmit ==
    \/ NextGenerate
    \/ \E t \in ToneChoices : SetTone(t)

SpecSubmit == Init /\ [][NextSubmit]_vars

\* ---------------------------------------------------- local-model chat loop

\* The messages kept for the model: this many of the latest.
ContextWindow == 5

\* The last n messages of a transcript.
LastMessages(messages, n) ==
    SubSeq(messages, IF Len(messages) > n THEN Len(messages) - n + 1 ELSE 1, Len(messages))

\* The synthesized system prompt: the instruction for the tone in effect.
SystemPrompt == [role |-> "system", content |-> <<"Reply in the target language, tone:", tone>>]

\* The request context with a window one message too wide.
BuildContextWide(messages) == <<SystemPrompt>> \o LastMessages(messages, ContextWindow + 1)

\* The request context of a turn: the system prompt, then the latest messages.
BuildContext(messages) == <<SystemPrompt>> \o LastMessages(messages, ContextWindow)

UserTurns == Len(SelectSeq(chat.messages, LAMBDA m : m.role = "user"))

\* Unloaded -> Loading.
ChatLoad ==
    /\ chat.state = "Unloaded"
    /\ chat' = [chat EXCEPT !.state = "Loading"]
    /\ UNCHANGED <<captureVars, alertShown, genVars, ttsVars, tone, now, localStorage,
                   reloads, request>>

\* Loading -> Ready, or -> Error when the runtime fails to load.
ChatLoadSettle(ok) ==
    /\ chat.state = "Loading"
    /\ chat' = [chat EXCEPT !.state = IF ok THEN "Ready" ELSE "Error"]
    /\ UNCHANGED <<captureVars, alertShown, genVars, ttsVars, tone, now, localStorage,
                   reloads, request>>

\* A turn starts on messages: the context is built, the abort signal armed
\* anew, and the stream opens with no assistant message yet.
ChatStartTurn(messages) ==
    chat' = [state |-> "Generating", messages |-> messages,
             context |-> BuildContext(messages), aborted |-> FALSE, streaming |-> FALSE]

\* Send: the user message is appended and the turn starts.
ChatSend(text) ==
    /\ chat.state = "Ready"
    /\ UserTurns < MaxTurns
    /\ ChatStartTurn(Append(chat.messages, [role |-> "user", content |-> <<text>>]))
    /\ UNCHANGED <<captureVars, alertShown, genVars, ttsVars, tone, now, localStorage,
                   reloads, request>>

\* Regenerate: the latest assistant message, if it is the last message, is
\* removed and the latest user message is sent again as a new turn.
ChatRegenerate ==
    /\ chat.state = "Ready"
    /\ UserTurns < MaxTurns
    /\ UserTurns > 0
    /\ LET n == Len(chat.messages)
           kept == IF chat.messages[n].role = "assistant"
                     THEN SubSeq(chat.messages, 1, n - 1) ELSE chat.messages
           k == CHOOSE i \in 1..Len(kept) :
                    kept[i].role = "user" /\ \A j \in (i + 1)..Len(kept) : kept[j].role # "user"
       IN  ChatStartTurn(Append(kept, kept[k]))
    /\ UNCHANGED <<captureVars, alertShown, genVars, ttsVars, tone, now, localStorage,
                   reloads, request>>

\* The transcript with token concatenated onto the turn's assistant message,
\* which is created by the first token and updated in place by the others.
UpsertToken(token) ==
    IF chat.streaming
      THEN [chat.messages EXCEPT ![Len(chat.messages)].content = Append(@, token)]
      ELSE Append(chat.messages, [role |-> "assistant", content |-> <<token>>])

\* A token arrives and is concatenated although the abort signal is set.
ChatTokenIgnoresAbort(token) ==
    /\ chat.state = "Generating"
    /\ ~chat.streaming \/ Len(chat.messages[Len(chat.messages)].content) < MaxTokens
    /\ chat' = [chat EXCEPT !.messages = UpsertToken(token), !.streaming = TRUE]
    /\ UNCHANGED <<captureVars, alertShown, genVars, ttsVars, tone, now, localStorage,
                   reloads, request>>

\* A token arrives: the abort signal is checked; tripped, the turn ends with
\* the message as it is; otherwise the token is concatenated.
ChatToken(token) ==
    /\ chat.state = "Generating"
    /\ ~chat.streaming \/ Len(chat.messages[Len(chat.messages)].content) < MaxTokens
    /\ IF chat.aborted
         THEN chat' = [chat EXCEPT !.state = "Ready", !.streaming = FALSE]
         ELSE chat' = [chat EXCEPT !.messages = UpsertToken(token), !.streaming = TRUE]
    /\ UNCHANGED <<captureVars, alertShown, genVars, ttsVars, tone, now, localStorage,
                   reloads, request>>

\* The stream ends: Generating -> Ready.
ChatStreamEnd ==
    /\ chat.state = "Generating"
    /\ chat' = [chat EXCEPT !.state = "Ready", !.streaming = FALSE]
    /\ UNCHANGED <<captureVars, alertShown, genVars, ttsVars, tone, now, localStorage,
                   reloads, request>>

\* The generation fails: Generating -> Error, the transcript left as it is.
ChatStreamError ==
    /\ chat.state = "Generating"
    /\ chat' = [chat EXCEPT !.state = "Error", !.streaming = FALSE]
    /\ UNCHANGED <<captureVars, alertShown, genVars, ttsVars, tone, now, localStorage,
                   reloads, request>>

\* The user cancels: the abort signal of the request in flight is set.
ChatAbort ==
    /\ chat.state = "Generating"
    /\ ~chat.aborted
    /\ chat' = [chat EXCEPT !.aborted = TRUE]
    /\ UNCHANGED <<captureVars, alertShown, genVars, ttsVars, tone, now, localStorage,
                   reloads, request>>

NextChat ==
    \/ ChatLoad
    \/ \E ok \in BOOLEAN : ChatLoadSettle(ok)
    \/ \E t \in ToneChoices : SetTone(t)
    \/ ChatSend("tea")
    \/ ChatRegenerate
    \/ \E token \in {"cha", "i"} : ChatToken(token)
    \/ ChatStreamEnd
    \/ ChatStreamError
    \/ ChatAbort

SpecChat == Init /\ [][NextChat]_vars

\* ------------------------------------------------------------ request builder

\* generateContent applied to the arguments of the state: the parts array it
\* hands to the vendor call.
GenerateContent ==
    /\ ~request.called
    /\ request' = [called |-> TRUE,
                   args |-> request.args,
                   parts |-> GenerateContentParts(request.args.textInput, request.args.mediaFile,
                                                  request.args.audioInput, request.args.tone,
                                                  request.args.duration)]
    /\ UNCHANGED <<captureVars, alertShown, genVars, ttsVars, tone, now, localStorage, reloads,
                   chat>>

\* Any argument list generateContent can be given.
InitRequest ==
    /\ InitState
    /\ \E a \in RequestArgs : request = [NoRequest EXCEPT !.args = a]

NextRequest == GenerateContent

SpecRequest == InitRequest /\ [][NextRequest]_vars

Next == NextCapture \/ NextGenerate \/ NextSpeech \/ NextHistory \/ NextRequest \/ NextChat

Spec == Init /\ [][Next]_vars

\* ----------------------------------------------------------------- claims

\* C1: in every reachable state at most one of selectedFile and recordedAudio
\* is non-null.
C1_FileXorRecording == ~(selectedFile # 0 /\ recordedAudio.some)

\* C1 witness: a recording was finished and a file selected afterwards, which
\* cleared the clip.
C1_Witness ==
    /\ selectedFile # 0
    /\ ~recordedAudio.some
    /\ \E r \in RecIds : recState[r] = "inactive"

\* C2: handleGenerate with empty text, no file and no recording shows the
\* "provide input" notice, sends no request and leaves isLoading, result and
\* history as they were.
C2_EmptyInputRejected ==
    [][(HandleGenerate /\ inputText = "" /\ selectedFile = 0 /\ ~recordedAudio.some)
          => (alertShown' = "provideInput"
              /\ UNCHANGED <<isLoading, result, history, genCall>>)]_vars

\* C2 witness: the notice is on screen over an earlier result and its history.
C2_Witness ==
    /\ alertShown = "provideInput"
    /\ inputText = "" /\ selectedFile = 0 /\ ~recordedAudio.some
    /\ result # NoResult
    /\ Len(history) > 0

\* The fields C3 names as required.
ClaimedRequired == {"facebookPost", "instagramCaption", "linkedinPost", "twitterPost",
                    "youtubeTitle", "youtubeDescription", "videoScript", "summary"}

\* C3: a JSON reply lacking a required field is a generation failure: result is
\* never set to the partial object and no history item is made of it.
C3_PartialReplyIsFailure ==
    /\ result # NoResult => ClaimedRequired \subseteq result.fields
    /\ \A i \in 1..Len(history) : ClaimedRequired \subseteq history[i].data.fields

PlayingSources == {t \in TtsIds : srcState[t] = "playing"}

\* C4: at most one text-to-speech source is playing at any time.
C4_OneSourcePlaying == Cardinality(PlayingSources) <= 1

\* C5: a press of the TTS button while isPlayingAudio is set clears the flag and
\* leaves no source playing, and while the flag stays clear (until the next
\* press sets it) no source starts playing.
C5_StopLeavesNoSource ==
    [][/\ HandleTTSStop => (~isPlayingAudio' /\ PlayingSources' = {})
       /\ (~isPlayingAudio /\ ~isPlayingAudio') => PlayingSources' \subseteq PlayingSources]_vars

\* C6: at most one generateSpeech call is in flight at any time.
C6_OneSpeechRequest == Cardinality({t \in TtsIds : ttsCall[t].pc = "speech"}) <= 1

\* C7: at most one generateContent call is in flight at any time.
C7_OneGenerationRequest == Cardinality({g \in GenIds : genCall[g].pc = "request"}) <= 1

\* C7 witness: a request is in flight while an earlier result is displayed (a
\* history item was restored or the earlier generation succeeded), so only
\* isLoading keeps Regenerate away.
C7_Witness ==
    /\ isLoading
    /\ result # NoResult
    /\ \E g \in GenIds : genCall[g].pc = "request"
    /\ \E g \in GenIds : genCall[g].pc = "unused"

\* C8: at most one microphone stream is live and at most one MediaRecorder is
\* recording, in every reachable state.
C8_OneRecordingActive ==
    /\ Cardinality({r \in RecIds : trackLive[r]}) <= 1
    /\ Cardinality({r \in RecIds : recState[r] = "recording"}) <= 1

\* C9: the clip a recorder's stop produces holds exactly the non-empty chunks
\* that recorder delivered, in order, and no chunk of another recorder.
C9_ClipIsOwnChunks ==
    [][\A r \in RecIds, size \in 0..1 :
          RecorderStopTask(r, size) =>
              recordedAudio'.blob = (IF size > 0 THEN <<r>> ELSE <<>>)]_vars

\* C10: whenever isRecording is false and no start is pending, every
\* microphone stream that was acquired has had its tracks stopped.
C10_MicReleased ==
    (~isRecording /\ \A r \in RecIds : recState[r] # "pending")
        => \A r \in RecIds : ~trackLive[r]

\* C11: when the view is unmounted while a recording is active, the tracks of
\* the microphone stream are stopped and the visualizer's source is
\* disconnected.
C11_UnmountReleasesCapture ==
    [][(Unmount /\ isRecording)
          => (~trackLive'[audioStream] /\ viz'.sources = {})]_vars

\* C12: when starting a recording fails from the Idle state (getUserMedia
\* rejects, or the recorder cannot be set up), the alert is shown, isRecording
\* stays false, no recorder records, no stream is left live, and selectedFile
\* and recordedAudio are unchanged.
C12_FailedStartStaysIdle ==
    [][\A r \in RecIds :
          (/\ GetUserMediaReject(r) \/ \E at \in {"ctor", "start"} : RecorderSetupThrows(r, at)
           /\ ~isRecording
           /\ \A q \in RecIds : ~trackLive[q] /\ recState[q] # "recording")
          => (/\ alertShown' = "micDenied"
              /\ ~isRecording'
              /\ \A q \in RecIds : ~trackLive'[q] /\ recState'[q] # "recording"
              /\ UNCHANGED <<selectedFile, recordedAudio>>)]_vars

\* The positions of the inline-data parts of a parts array.
InlineDataAt(parts) == {i \in 1..Len(parts) : "inlineData" \in DOMAIN parts[i]}

\* The hint texts keyed to a MIME category.
HintsOfCategory(category) ==
    IF category = "audio" THEN {ContextHint.audio, AudioContextHint}
    ELSE IF category = "image" THEN {ContextHint.image}
    ELSE IF category = "video" THEN {ContextHint.video}
    ELSE {}

AllHints == HintsOfCategory("audio") \cup HintsOfCategory("image") \cup HintsOfCategory("video")

\* The inline-data parts a request's arguments call for: the media file's,
\* then the recorded audio's.
ExpectedInline(args) ==
    (IF args.mediaFile.some THEN <<InlineDataPart(args.mediaFile)>> ELSE <<>>)
        \o (IF args.audioInput.some THEN <<InlineDataPart(args.audioInput)>> ELSE <<>>)

IsInlineData(part) == "inlineData" \in DOMAIN part

\* C13: the parts list of a built request starts with the instruction text
\* part, its inline-data parts are the media file's and then the recorded
\* audio's, and every inline-data part, whatever its MIME type, is
\* immediately followed by a hint text part of its MIME category.
C13_EveryInlinePartHasHint ==
    request.called =>
        /\ request.parts[1] = [text |-> PromptText(request.args.textInput, request.args.tone,
                                                    request.args.duration)]
        /\ SelectSeq(request.parts, IsInlineData) = ExpectedInline(request.args)
        /\ \A i \in InlineDataAt(request.parts) :
              /\ i + 1 <= Len(request.parts)
              /\ "text" \in DOMAIN request.parts[i + 1]
              /\ request.parts[i + 1].text
                    \in HintsOfCategory(request.parts[i].inlineData.mimeType[1])

\* C14: a request built from a non-empty text, no media file and no recorded
\* audio has exactly one part, a text part: no inline-data part and no
\* audio/image/video hint text.
C14_TextOnlyRequestIsOnePart ==
    (/\ request.called
     /\ request.args.textInput # ""
     /\ ~request.args.mediaFile.some
     /\ ~request.args.audioInput.some)
        => /\ Len(request.parts) = 1
           /\ "text" \in DOMAIN request.parts[1]
           /\ InlineDataAt(request.parts) = {}
           /\ \A i \in 1..Len(request.parts) :
                 "text" \in DOMAIN request.parts[i] => request.parts[i].text \notin AllHints

\* A text-only request has been built, for a tone other than the default.
C14_Witness ==
    /\ request.called
    /\ request.args.textInput = "tea"
    /\ request.args.tone = "Horror"
    /\ ~request.args.mediaFile.some
    /\ ~request.args.audioInput.some
    /\ Len(request.parts) = 1

\* The generations whose content is in the list, first to last.
GensOf(h) == [i \in 1..Len(h) |-> h[i].data.gen]

\* C15: a successful generation puts a new item holding that generation's
\* content at index 0 of history, with the items that were there after it in
\* their order; history is always ordered latest generation first.
C15_PrependOnSuccess ==
    /\ [][\A g \in GenIds, reply \in Replies :
             (GenerateSettle(g, reply) /\ ~ContentRejects(reply))
                => /\ Len(history') = Len(history) + 1
                   /\ history'[1].data = [gen |-> g, fields |-> reply.fields]
                   /\ history'[1].data = result'
                   /\ \A i \in 1..Len(history) : history'[i + 1] = history[i]]_vars
    /\ [](\A i, j \in 1..Len(history) : i < j => history[i].data.gen > history[j].data.gen)

\* Two generations have succeeded and the later one is first.
C15_Witness ==
    /\ Len(history) >= 2
    /\ GensOf(history)[1] > GensOf(history)[2]
    /\ result = history[1].data

\* C16: deleting by id removes exactly one entry, the one of that id, and
\* keeps the order of the others.
C16_DeleteRemovesOne ==
    [][\A id \in HistoryIds :
          DeleteHistoryItem(id)
             => \E k \in 1..Len(history) :
                   /\ history[k].id = id
                   /\ history' = SubSeq(history, 1, k - 1)
                                    \o SubSeq(history, k + 1, Len(history))]_vars

\* C17: history stays below a fixed maximum length however many generations
\* succeed; here, below the number of generations made.
C17_HistoryBounded == Len(history) < MaxGen /\ Len(localStorage) < MaxGen

C19_ClearOnlyWhenConfirmed ==
    [][\A accepted \in BOOLEAN :
          ClearHistory(accepted)
             => IF accepted
                  THEN history' = <<>> /\ localStorage' = JsonStringify(<<>>)
                  ELSE UNCHANGED <<history, localStorage>>]_vars

\* History has been emptied after a generation succeeded and is shown.
C19_Witness ==
    /\ history = <<>>
    /\ localStorage = JsonStringify(<<>>)
    /\ result # NoResult
    /\ reloads = 0

\* The generation calls that have not settled.
InFlight == {g \in GenIds : genCall[g].pc \in {"encoding", "request"}}

\* C20: when a generation attempt settles, by success, by a vendor failure
\* or by an encoding failure, isLoading is false and the Generate button is
\* enabled again; isLoading is never true with no attempt in flight.
C20_LoadingNeverStuck ==
    /\ [][\A g \in GenIds :
             (EncodingFail(g) \/ \E reply \in Replies : GenerateSettle(g, reply))
                => ~isLoading' /\ GenerateButtonEnabled']_vars
    /\ [](isLoading => InFlight # {})

\* One attempt has failed, one has succeeded, and the flag is clear.
C20_Witness ==
    /\ ~isLoading
    /\ \E g \in GenIds : genCall[g].pc = "failed"
    /\ \E g \in GenIds : genCall[g].pc = "done"
    /\ InFlight = {}

\* C21: a generation attempt that fails, while encoding or in the vendor
\* call, leaves history, its snapshot and the displayed result as they were
\* and puts no request in flight; a request is put in flight only by a press
\* of Generate or Regenerate.
C21_FailureChangesNothing ==
    /\ [][\A g \in GenIds :
             (EncodingFail(g)
                \/ \E reply \in Replies : ContentRejects(reply) /\ GenerateSettle(g, reply))
                => /\ UNCHANGED <<history, localStorage, result>>
                   /\ genCall'[g].pc = "failed"
                   /\ InFlight' = InFlight \ {g}]_vars
    /\ [][(InFlight' \ InFlight # {}) => (PressGenerate \/ PressRegenerate)]_vars

\* An attempt has failed while an earlier result is displayed and in history.
C21_Witness ==
    /\ \E g \in GenIds : genCall[g].pc = "failed"
    /\ alertShown = "generationFailed"
    /\ result # NoResult
    /\ Len(history) = 1
    /\ history[1].data = result

\* The response carries an inline audio payload in some part.
CarriesAudio(response) ==
    /\ response.kind = "ok"
    /\ \E i \in 1..Len(response.parts) :
          /\ "inlineData" \in DOMAIN response.parts[i]
          /\ response.parts[i].inlineData.data # ""

\* C22: generateSpeech returns the payload whenever the response carries an
\* inline audio payload and fails only when it carries none; when it fails
\* the caller clears isPlayingAudio and starts no source.
C22_SpeechFailsOnlyWithoutAudio ==
    [][\A t \in TtsIds, response \in SpeechResponses :
          SpeechSettle(t, response)
             => /\ CarriesAudio(response) <=> ~GenerateSpeech(response).throws
                /\ CarriesAudio(response) => ttsCall'[t].pc = "decode"
                /\ ~CarriesAudio(response)
                      => /\ ttsCall'[t].pc = "failed"
                         /\ ~isPlayingAudio'
                         /\ UNCHANGED srcState]_vars

\* C23: generateContent fails when the vendor call errors, when the response
\* has no text and when the text is not JSON, and then no value reaches the
\* caller; otherwise the caller gets the parsed object.
C23_ContentOrFailure ==
    [][\A g \in GenIds, reply \in Replies :
          GenerateSettle(g, reply)
             => IF reply.kind \in {"error", "notext", "badjson"}
                  THEN /\ genCall'[g].pc = "failed"
                       /\ alertShown' = "generationFailed"
                       /\ UNCHANGED result
                  ELSE /\ genCall'[g].pc = "done"
                       /\ result' = [gen |-> g, fields |-> reply.fields]]_vars

\* The first attempt was rejected: nothing is displayed.
C23_Witness ==
    /\ genCall[1].pc = "failed"
    /\ alertShown = "generationFailed"
    /\ result = NoResult
    /\ history = <<>>

\* C24: when the visualizer is not shown with an active stream (recording
\* stopped, or the component unmounted) no animation frame is pending and no
\* media source is left connected to the analyser.
C24_VisualizerReleased ==
    ~(mounted /\ isRecording) => (~viz.frame /\ viz.sources = {})

\* A step that starts a chat turn.
ChatTurnStarts == ChatSend("tea") \/ ChatRegenerate

\* C25: the context sent on a turn is the system prompt followed by the
\* latest messages, at most 5 of them, the new user message last: at most 6
\* messages whatever the transcript's length; a send keeps the whole
\* transcript and adds the user message to it.
C25_ContextWindowed ==
    /\ [][ChatTurnStarts
            => /\ Len(chat'.context) <= 6
               /\ chat'.context[1] = SystemPrompt
               /\ Len(chat'.context) = 1 + (IF Len(chat'.messages) < 5
                                              THEN Len(chat'.messages) ELSE 5)
               /\ \A i \in 1..(Len(chat'.context) - 1) :
                     chat'.context[Len(chat'.context) + 1 - i]
                        = chat'.messages[Len(chat'.messages) + 1 - i]
               /\ chat'.context[Len(chat'.context)].role = "user"]_vars
    /\ [][ChatSend("tea")
            => /\ Len(chat'.messages) = Len(chat.messages) + 1
               /\ SubSeq(chat'.messages, 1, Len(chat.messages)) = chat.messages]_vars
    /\ [](Len(chat.context) <= 6)

\* A turn has started on a transcript longer than the window.
C25_Witness ==
    /\ chat.state = "Generating"
    /\ Len(chat.messages) >= 7
    /\ Len(chat.context) = 6

\* The assistant messages after the latest user message.
TurnAssistantMessages ==
    {i \in 1..Len(chat.messages) :
        /\ chat.messages[i].role = "assistant"
        /\ \A j \in (i + 1)..Len(chat.messages) : chat.messages[j].role # "user"}

\* C26: once the abort signal is set no token is added to the transcript and
\* the next token check ends the turn in Ready with the partial message as it
\* was; a turn starts only by a send or a regenerate; while streaming the turn
\* has one assistant message, which each token extends in place.
C26_AbortKeepsPartial ==
    /\ [][(chat.state = "Generating" /\ chat.aborted)
            => /\ chat'.messages = chat.messages
               /\ (\E token \in {"cha", "i"} : ChatToken(token)) => chat'.state = "Ready"]_vars
    /\ [][(chat.state # "Generating" /\ chat'.state = "Generating") => ChatTurnStarts]_vars
    /\ [][(chat.state = "Generating" /\ chat.streaming /\ chat'.state = "Generating")
            => /\ Len(chat'.messages) = Len(chat.messages)
               /\ SubSeq(chat'.messages, 1, Len(chat.messages) - 1)
                     = SubSeq(chat.messages, 1, Len(chat.messages) - 1)]_vars
    /\ [](chat.state = "Generating" => Cardinality(TurnAssistantMessages) <= 1)
    /\ [](chat.streaming => Cardinality(TurnAssistantMessages) = 1)

\* A turn was aborted after its first token: the one-token message stands.
C26_Witness ==
    /\ chat.state = "Ready"
    /\ chat.aborted
    /\ Len(chat.messages) = 2
    /\ chat.messages[2] = [role |-> "assistant", content |-> <<"cha">>]

\* C27: a generation request carries at most one inline-data part: the
\* closure of handleGenerate never holds both a file and a recorded clip.
C27_OneAttachmentPerRequest ==
    \A g \in GenIds :
        genCall[g].pc \in {"encoding", "request"}
            => /\ ~(genCall[g].file # 0 /\ genCall[g].audio)
               /\ Cardinality(InlineDataAt(PartsOfCall(g))) <= 1

\* A request with the recorded clip is in flight after one with a file was
\* answered.
C27_Witness ==
    /\ \E g \in GenIds : /\ genCall[g].pc = "request"
                          /\ genCall[g].audio
                          /\ Cardinality(InlineDataAt(PartsOfCall(g))) = 1
    /\ \E i \in 1..Len(history) : history[i].preview = "File"

\* C28: the items of history have pairwise distinct ids.
C28_DistinctIds ==
    \A i, j \in 1..Len(history) : i # j => history[i].id # history[j].id

\* C29: a download URL that is set holds audio synthesized from the summary
\* of the result on display.
C29_DownloadMatchesResult ==
    audioDownloadUrl # 0 => (result # NoResult /\ audioDownloadUrl = result.gen)

\* The preview of an entry made from the inputs call g was submitted with.
PreviewOfCall(g) ==
    IF genCall[g].text # "" THEN genCall[g].text
    ELSE IF genCall[g].file # 0 THEN "File" ELSE "Audio Recording"

\* C30: a call takes the tone, text and attachments in effect when it is
\* submitted and keeps them while in flight; the item made from its content
\* carries that tone, which is the tone of its request, and the preview of
\* those inputs; restoring an item sets result and tone to the item's and
\* leaves history as it is.
C30_ItemRecordsSubmittedInput ==
    /\ [][\A g \in GenIds :
             (genCall[g].pc = "unused" /\ genCall'[g].pc # "unused")
                => /\ genCall'[g].tone = tone
                   /\ genCall'[g].text = inputText
                   /\ genCall'[g].file = selectedFile
                   /\ genCall'[g].audio = recordedAudio.some]_vars
    /\ [][\A g \in GenIds :
             (genCall[g].pc \in {"encoding", "request"}
                /\ genCall'[g].pc \in {"encoding", "request"})
                => /\ genCall'[g].tone = genCall[g].tone
                   /\ genCall'[g].text = genCall[g].text
                   /\ genCall'[g].file = genCall[g].file]_vars
    /\ [][\A g \in GenIds, reply \in Replies :
             (GenerateSettle(g, reply) /\ ~ContentRejects(reply))
                => /\ history'[1].tone = genCall[g].tone
                   /\ history'[1].preview = PreviewOfCall(g)
                   /\ PartsOfCall(g)[1]
                         = [text |-> PromptText(genCall[g].text, history'[1].tone,
                                                "Short (< 2 min)")]]_vars
    /\ [][\A i \in 1..MaxGen :
             RestoreHistoryItem(i)
                => /\ result' = history[i].data
                   /\ tone' = history[i].tone
                   /\ UNCHANGED history]_vars

\* The displayed item was made with a tone and a text that are no longer the
\* ones selected.
C30_Witness ==
    /\ Len(history) >= 1
    /\ result = history[1].data
    /\ history[1].tone = "Horror"
    /\ tone = "Creative"
    /\ history[1].preview = "tea"
    /\ inputText = ""
    /\ selectedFile # 0

====
